---- MODULE Spec2Model ----
(***************************************************************************)
(* Model of the hop repository: the Constants record (hop/constants.py)    *)
(* and the rigid-body dynamics that DroneModel (hop/drone_model.py) hands  *)
(* to do_mpc.                                                              *)
(*                                                                         *)
(* Numbers.  Physical quantities are decimal fixed point with six          *)
(* fractional digits (an integer n stands for n / 10^6); every product and *)
(* quotient is truncated to that grid, the way the source rounds every     *)
(* floating point operation to a double.  The orientation quaternion is    *)
(* an exact rational [n, d] (components n[i] / d), and a value divided by  *)
(* the quaternion norm is kept as a coefficient over the square root of an *)
(* integer, so the quaternion algebra is exact.  0/0 is NaN.               *)
(***************************************************************************)
EXTENDS Integers, Sequences, FiniteSets, TLC

\* ------------------------------------------------------------------------
\* bounds of the model
\* ------------------------------------------------------------------------
QMax == 1        \* quaternion numerators range over -QMax..QMax
QDenMax == 2     \* quaternion denominators range over 1..QDenMax
WMax == 1        \* angular velocity components range over -WMax..WMax rad/s
KMax == 2        \* factors by which the literals Izz and l are multiplied
MaxRepr == 2     \* renderings kept in the log

\* ------------------------------------------------------------------------
\* fixed point arithmetic
\* ------------------------------------------------------------------------
Scale == 1000 * 1000

Abs(x) == IF x < 0 THEN -x ELSE x

Sgn(x) == IF x < 0 THEN -1 ELSE IF x = 0 THEN 0 ELSE 1

\* floor(x * y / 10^6) for x, y >= 0, without leaving 32 bits
MulAbs(x, y) ==
  LET xh == x \div 1000
      xl == x % 1000
      yh == y \div 1000
      yl == y % 1000
  IN  xh * yh + ((xh * yl + xl * yh) + ((xl * yl) \div 1000)) \div 1000

Mul(x, y) == Sgn(x) * Sgn(y) * MulAbs(Abs(x), Abs(y))

RECURSIVE Pow10(_)
Pow10(k) == IF k = 0 THEN 1 ELSE 10 * Pow10(k - 1)

\* the k leading fractional digits of r / y, for 0 <= r < y
RECURSIVE Frac(_, _, _)
Frac(r, y, k) ==
  IF k = 0 THEN 0
  ELSE ((r * 10) \div y) * Pow10(k - 1) + Frac((r * 10) % y, y, k - 1)

DivAbs(x, y) == (x \div y) * Scale + Frac(x % y, y, 6)

\* x / y, y # 0, truncated
Div(x, y) == Sgn(x) * Sgn(y) * DivAbs(Abs(x), Abs(y))

\* integer quotient truncated toward zero
Quot(x, y) == Sgn(x) * Sgn(y) * (Abs(x) \div Abs(y))

Dot3(x, y) == x[1] * y[1] + x[2] * y[2] + x[3] * y[3]

Dot4(x, y) == x[1] * y[1] + x[2] * y[2] + x[3] * y[3] + x[4] * y[4]

\* ca.cross / np.cross of two fixed point 3-vectors
cross(x, y) ==
  << Mul(x[2], y[3]) - Mul(x[3], y[2]),
     Mul(x[3], y[1]) - Mul(x[1], y[3]),
     Mul(x[1], y[2]) - Mul(x[2], y[1]) >>

\* ------------------------------------------------------------------------
\* literals of Constants.__init__
\* ------------------------------------------------------------------------
timelimit == 1000000
m == 1500000
l == 180000
gx == 0
gy == 0
gz == -9810000
Ixx == 60000
Iyy == 60000
Izz == 12000
tcc == 1600000
d == 100000
theta_dot_constraint == 6160000
thrust_dot_limit == 20000000
hover_thrust == 2529000
prop_thrust_constraint == 50000000
dt == 20000
mpc_horizon == 100
spectral_order == 6
finite_interval_size == 300000
number_intervals == 6
collocation_degree == 2

outer_gimbal_range == << -20000000, 20000000 >>
inner_gimbal_range == << -13500000, 13500000 >>
diff_thrust_constraint == << -800000, 800000 >>

x0 == << 0, 0, 0, 0, 0, 0, 0, 0, 0, Scale, 0, 0, 0 >>
Q == [i \in 1..13 |-> [j \in 1..13 |-> IF i = j THEN Scale ELSE 0]]
Rdiag == << 30000, 30000, Scale, 30000 >>
R == [i \in 1..4 |-> [j \in 1..4 |-> IF i = j THEN Rdiag[i] ELSE 0]]
xr == << 0, 0, 0, 0, 0, 0, 0, 0, 0, Scale, 0, 0, 0 >>
ur == << 0, 0, hover_thrust, 0 >>
waypoints == << << 0, 0, 0 >>, << 0, 0, 250000 >>, << 0, 0, 0 >> >>
ipopt_settings ==
  << << "ipopt.max_iter", 100 >>,
     << "ipopt.tol", 1000 >>,
     << "ipopt.acceptable_tol", 100 >>,
     << "ipopt.print_level", 0 >>,
     << "ipopt.sb", "yes" >>,
     << "print_time", 0 >>,
     << "ipopt.linear_solver", "ma27" >> >>

\* the literals a changed source file may carry for the moments of inertia
\* and the arm length
DefaultLit == [Ixx |-> Ixx, Iyy |-> Iyy, Izz |-> Izz, l |-> l]

Literals ==
  [Ixx : {-Ixx, 0, Ixx}, Iyy : {-Iyy, 0, Iyy}, Izz : {-Izz, 0, Izz}, l : {l}]
  \cup
  [Ixx : {Ixx}, Iyy : {Iyy}, Izz : {k * Izz : k \in 1..KMax},
   l : {k * l : k \in 1..KMax}]

\* ------------------------------------------------------------------------
\* np.linalg.inv of the diagonal matrix diag(dg): LinAlgError("Singular
\* matrix") when a pivot is zero
\* ------------------------------------------------------------------------
\* a constructor that rejects every non-positive moment of inertia
Singular_nonpositive(dg) == \E i \in 1..3 : dg[i] <= 0

Singular(dg) == \E i \in 1..3 : dg[i] = 0

inv(dg) ==
  [i \in 1..3 |-> [j \in 1..3 |-> IF i = j THEN Div(Scale, dg[i]) ELSE 0]]

\* the record Constants.__init__ builds from the literals lt
ConstantsRecord(lt) ==
  [ timelimit |-> timelimit,
    m |-> m,
    l |-> lt.l,
    gx |-> gx, gy |-> gy, gz |-> gz,
    g |-> << gx, gy, gz >>,
    Ixx |-> lt.Ixx, Iyy |-> lt.Iyy, Izz |-> lt.Izz,
    moment_arm |-> << 0, 0, Quot(-lt.l, 2) >>,
    I |-> [i \in 1..3 |-> [j \in 1..3 |->
             IF i = j THEN << lt.Ixx, lt.Iyy, lt.Izz >>[i] ELSE 0]],
    I_diag |-> << lt.Ixx, lt.Iyy, lt.Izz >>,
    I_inv |-> inv(<< lt.Ixx, lt.Iyy, lt.Izz >>),
    tcc |-> tcc,
    a |-> Mul(1327000, tcc),
    b |-> Mul(284000, tcc),
    c |-> Mul(-15000, tcc),
    d |-> d,
    outer_gimbal_range |-> outer_gimbal_range,
    inner_gimbal_range |-> inner_gimbal_range,
    theta_dot_constraint |-> theta_dot_constraint,
    thrust_dot_limit |-> thrust_dot_limit,
    hover_thrust |-> hover_thrust,
    prop_thrust_constraint |-> prop_thrust_constraint,
    diff_thrust_constraint |-> diff_thrust_constraint,
    dt |-> dt,
    x0 |-> x0,
    Q |-> Q,
    R |-> R,
    xr |-> xr,
    ur |-> ur,
    waypoints |-> waypoints,
    nmpc_rate_constraints |-> FALSE,
    mpc_horizon |-> mpc_horizon,
    spectral_order |-> spectral_order,
    finite_interval_size |-> finite_interval_size,
    number_intervals |-> number_intervals,
    collocation_degree |-> collocation_degree,
    ipopt_settings |-> ipopt_settings ]

\* no Constants object
NoConstants == [f \in {} |-> 0]

\* ------------------------------------------------------------------------
\* state
\* ------------------------------------------------------------------------
VARIABLES
  lit,       \* the literals in constants.py
  pc,        \* "start", "constructed" (mc = Constants() returned), "failed"
  mc,        \* the module level Constants instance
  model,     \* the DroneModel's right hand sides, once set up
  printed,   \* the renderings of mc written so far
  x,         \* the state at which a consumer evaluates the model
  u,         \* the control at which a consumer evaluates the model
  deriv      \* the derivative computed at (x, u)

vars == << lit, pc, mc, model, printed, x, u, deriv >>

\* mc = Constants()
ConstantsInit ==
  /\ pc = "start"
  /\ IF Singular(<< lit.Ixx, lit.Iyy, lit.Izz >>)
     THEN /\ pc' = "failed"
          /\ mc' = NoConstants
     ELSE /\ pc' = "constructed"
          /\ mc' = ConstantsRecord(lit)
  /\ UNCHANGED << lit, model, printed, x, u, deriv >>

\* ------------------------------------------------------------------------
\* DroneModel.__init__: the expressions, as functions of the symbols.
\* A state st is [p, v, q, w]; st.q = [n, d] stands for state[6..9] =
\* n[1..4] / d and st.w for state[10..12].  A control uu is
\* << u[0], u[1], u[2], u[3] >>.
\* ------------------------------------------------------------------------

\* sin((np.pi/180) * t) for the gimbal angles 0, 13.5 and 20 degrees
sin(t) ==
  Sgn(t) * (CASE Abs(t) = 0 -> 0
              [] Abs(t) = 13500000 -> 233445
              [] Abs(t) = 20000000 -> 342020)

\* cos((np.pi/180) * t) for the same angles
cos(t) ==
  CASE Abs(t) = 0 -> Scale
    [] Abs(t) = 13500000 -> 972369
    [] Abs(t) = 20000000 -> 939692

I_mat(c) == c.I_diag

\* u[2]*2 for u[2]**2
F_doubled(c, uu) == Mul(c.a, 2 * uu[3]) + Mul(c.b, uu[3]) + c.c

F(c, uu) == Mul(c.a, Mul(uu[3], uu[3])) + Mul(c.b, uu[3]) + c.c

\* the yaw moment built on Ixx
M_Ixx(c, uu) == Mul(Mul(c.d, c.I_diag[1]), uu[4])

M(c, uu) == Mul(Mul(c.d, c.Izz), uu[4])

F_vector(c, uu) ==
  LET Fs == F(c, uu)
  IN  << Mul(Fs, sin(uu[2])),
         Mul(Fs, Mul(-sin(uu[1]), cos(uu[2]))),
         Mul(Fs, Mul(cos(uu[1]), cos(uu[2]))) >>

roll_moment(c, uu) == << 0, 0, M(c, uu) >>

M_vector(c, uu) ==
  LET t == cross(c.moment_arm, F_vector(c, uu))
      r == roll_moment(c, uu)
  IN  << t[1] + r[1], t[2] + r[2], t[3] + r[3] >>

angular_momentum(c, st) ==
  << Mul(I_mat(c)[1], st.w[1]), Mul(I_mat(c)[2], st.w[2]),
     Mul(I_mat(c)[3], st.w[3]) >>

\* r_b2w with the sign of one product flipped in the first row
r_b2w_sign(st) ==
  LET n == st.q.n
      dd == st.q.d * st.q.d
  IN  [ num |->
          << << dd - 2 * (n[2] * n[2] + n[3] * n[3]),
                2 * (n[1] * n[2] + n[3] * n[4]),
                2 * (n[1] * n[3] + n[2] * n[4]) >>,
             << 2 * (n[1] * n[2] + n[3] * n[4]),
                dd - 2 * (n[1] * n[1] + n[3] * n[3]),
                2 * (n[2] * n[3] - n[1] * n[4]) >>,
             << 2 * (n[1] * n[3] - n[2] * n[4]),
                2 * (n[2] * n[3] + n[1] * n[4]),
                dd - 2 * (n[1] * n[1] + n[2] * n[2]) >> >>,
        den |-> dd ]

\* the rotation matrix as num / den: with state[6 + i] = n[i + 1] / d,
\* 1 - 2 (s7^2 + s8^2) = (d^2 - 2 (n2^2 + n3^2)) / d^2, and so on
r_b2w(st) ==
  LET n == st.q.n
      dd == st.q.d * st.q.d
  IN  [ num |->
          << << dd - 2 * (n[2] * n[2] + n[3] * n[3]),
                2 * (n[1] * n[2] - n[3] * n[4]),
                2 * (n[1] * n[3] + n[2] * n[4]) >>,
             << 2 * (n[1] * n[2] + n[3] * n[4]),
                dd - 2 * (n[1] * n[1] + n[3] * n[3]),
                2 * (n[2] * n[3] - n[1] * n[4]) >>,
             << 2 * (n[1] * n[3] - n[2] * n[4]),
                2 * (n[2] * n[3] + n[1] * n[4]),
                dd - 2 * (n[1] * n[1] + n[2] * n[2]) >> >>,
        den |-> dd ]

\* Q_omega read from state[3..5], the velocity
Q_omega_velocity(st) ==
  LET w == st.v
  IN  << << 0, w[3], -w[2], w[1] >>,
         << -w[3], 0, w[1], w[2] >>,
         << w[2], -w[1], 0, w[3] >>,
         << -w[1], -w[2], -w[3], 0 >> >>

\* Q_omega with one sign lost in the third row
Q_omega_sign(st) ==
  LET w == st.w
  IN  << << 0, w[3], -w[2], w[1] >>,
         << -w[3], 0, w[1], w[2] >>,
         << w[2], w[1], 0, w[3] >>,
         << -w[1], -w[2], -w[3], 0 >> >>

Q_omega(st) ==
  LET w == st.w
  IN  << << 0, w[3], -w[2], w[1] >>,
         << -w[3], 0, w[1], w[2] >>,
         << w[2], -w[1], 0, w[3] >>,
         << -w[1], -w[2], -w[3], 0 >> >>

\* A number c / sqrt(r), or NaN
NaN == [nan |-> TRUE, c |-> 0, r |-> 0]

Surd(c, r) == [nan |-> FALSE, c |-> c, r |-> r]

\* fixed point f times the surd s
SurdScale(f, s) == IF s.nan THEN NaN ELSE Surd(f * s.c, s.r)

SurdAdd(s, t) == IF s.nan \/ t.nan THEN NaN ELSE Surd(s.c + t.c, s.r)

\* q_full = state[6:10] / ca.norm_2(state[6:10]): the norm is
\* sqrt(n.n) / d, so a component is n[i] / sqrt(n.n), and 0/0 when q = 0
q_full(st) ==
  LET n == st.q.n
      nn == Dot4(n, n)
  IN  [i \in 1..4 |-> IF nn = 0 THEN NaN ELSE Surd(n[i], nn)]

\* row i of A @ v for the 4x4 fixed point matrix A, whose diagonal is the
\* constant 0, and the vector v of surds
MatVecRow(A, v, i) ==
  LET js == << 1, 2, 3, 4 >>
      others == SelectSeq(js, LAMBDA j : j # i)
  IN  SurdAdd(SurdAdd(SurdScale(A[i][others[1]], v[others[1]]),
                      SurdScale(A[i][others[2]], v[others[2]])),
              SurdScale(A[i][others[3]], v[others[3]]))

rhs_p(c, st, uu) == st.v

\* the velocity derivative without gravity
rhs_v_no_gravity(c, st, uu) ==
  LET Rm == r_b2w(st)
      Fv == F_vector(c, uu)
  IN  [i \in 1..3 |-> Div(Quot(Dot3(Rm.num[i], Fv), Rm.den), c.m)]

rhs_v(c, st, uu) ==
  LET Rm == r_b2w(st)
      Fv == F_vector(c, uu)
  IN  [i \in 1..3 |->
         Div(Quot(Dot3(Rm.num[i], Fv), Rm.den), c.m) + c.g[i]]

rhs_q(c, st, uu) ==
  LET Qh == [i \in 1..4 |-> [j \in 1..4 |-> Mul(500000, Q_omega(st)[i][j])]]
      qf == q_full(st)
  IN  [i \in 1..4 |-> MatVecRow(Qh, qf, i)]

\* ca.solve(I_mat, b) for the diagonal I_mat
rhs_w(c, st, uu) ==
  LET Mv == M_vector(c, uu)
      cr == cross(st.w, angular_momentum(c, st))
  IN  [i \in 1..3 |-> Div(Mv[i] - cr[i], I_mat(c)[i])]

NoModel == [f \in {} |-> 0]

NoDeriv == [f \in {} |-> 0]

\* the constants the expressions of a DroneModel hold once it is built
ModelOf(c) ==
  [ I_diag |-> c.I_diag, a |-> c.a, b |-> c.b, c |-> c.c, d |-> c.d,
    Izz |-> c.Izz, moment_arm |-> c.moment_arm, m |-> c.m, g |-> c.g ]

\* a DroneModel that scales Izz in the shared record while building M
DroneModelInit_writes ==
  /\ pc = "constructed"
  /\ model' = ModelOf(mc)
  /\ mc' = [mc EXCEPT !.Izz = Mul(mc.d, mc.Izz)]
  /\ UNCHANGED << lit, pc, printed, x, u, deriv >>

\* DroneModel(): reads mc, builds the right hand sides, model.setup()
DroneModelInit ==
  /\ pc = "constructed"
  /\ model' = ModelOf(mc)
  /\ UNCHANGED << lit, pc, mc, printed, x, u, deriv >>

\* a consumer evaluates the four right hand sides at (x, u)
Evaluate ==
  /\ model # NoModel
  /\ deriv' = [ p |-> rhs_p(model, x, u), v |-> rhs_v(model, x, u),
                q |-> rhs_q(model, x, u), w |-> rhs_w(model, x, u) ]
  /\ UNCHANGED << lit, pc, mc, model, printed, x, u >>

\* ------------------------------------------------------------------------
\* Constants.__repr__: the text, line by line.  A field line formats a
\* label to width lw and str() of the attribute attr to width vw (0: no
\* padding).
\* ------------------------------------------------------------------------
Text(t) == [kind |-> "text", label |-> t]

Heading(t) == [kind |-> "heading", label |-> t]

Rule == [kind |-> "rule", label |-> "-----------------------------------------------"]

Field(c, t, lw, attr, vw) ==
  [kind |-> "field", label |-> t, lw |-> lw, attr |-> attr,
   value |-> c[attr], vw |-> vw]

Title == << Text("Constants "), Text("---------------------") >>

GeneralSection(c) ==
  << Heading("General constants: "), Rule,
     Field(c, "flight time:", 15, "timelimit", 15) >>

ModelSection(c) ==
  << Heading("Model related constants: "), Rule,
     Field(c, "m:", 10, "m", 15),
     Field(c, "l:", 10, "l", 15),
     Field(c, "gx:", 10, "gx", 15),
     Field(c, "gy:", 10, "gy", 15),
     Field(c, "gz:", 10, "gz", 15),
     Field(c, "g:", 10, "g", 15),
     Field(c, "Ixx:", 10, "Ixx", 15),
     Field(c, "Iyy:", 10, "Iyy", 15),
     Field(c, "Izz:", 10, "Izz", 15),
     Field(c, "moment arm:", 20, "moment_arm", 0),
     Field(c, "I_inv:", 20, "I_inv", 0) >>

\* the thrust section without the line of d
ThrustSection_short(c) ==
  << Heading("thrust model constants: "), Rule,
     Field(c, "tcc:", 10, "tcc", 15),
     Field(c, "a:", 10, "a", 15),
     Field(c, "b:", 10, "b", 15),
     Field(c, "c:", 10, "c", 15) >>

ThrustSection(c) ==
  << Heading("thrust model constants: "), Rule,
     Field(c, "tcc:", 10, "tcc", 15),
     Field(c, "a:", 10, "a", 15),
     Field(c, "b:", 10, "b", 15),
     Field(c, "c:", 10, "c", 15),
     Field(c, "d:", 10, "d", 15) >>

MechanicalSection(c) ==
  << Heading("Mechanical and hardware constants: "), Rule,
     Field(c, "outer gimbal range:", 20, "outer_gimbal_range", 0),
     Field(c, "inner gimbal range:", 20, "inner_gimbal_range", 0),
     Field(c, "theta dot max:", 20, "theta_dot_constraint", 0),
     Field(c, "thrust dot max:", 20, "thrust_dot_limit", 0),
     Field(c, "hover thrust:", 20, "hover_thrust", 0),
     Field(c, "max thrust:", 20, "prop_thrust_constraint", 0),
     Field(c, "max diff thrus:", 20, "diff_thrust_constraint", 0) >>

NMPCSection(c) ==
  << Heading("NMPC constants: "), Rule,
     Field(c, "dt:", 10, "dt", 15),
     Field(c, "x0:", 10, "x0", 0),
     Field(c, "Q:", 10, "Q", 0),
     Field(c, "R:", 10, "R", 0),
     Field(c, "xr:", 10, "xr", 0),
     Field(c, "ur:", 10, "ur", 0),
     Field(c, "waypoints:", 20, "waypoints", 15),
     Field(c, "NMPC rate constraints:", 20, "nmpc_rate_constraints", 0) >>

NLPSection(c) ==
  << Heading("NLP constants: "), Rule,
     Field(c, "nmpc horizon:", 20, "mpc_horizon", 15),
     Field(c, "spectral order:", 20, "spectral_order", 15),
     Field(c, "size of intervals:", 20, "finite_interval_size", 15),
     Field(c, "num intervals:", 20, "number_intervals", 15),
     Field(c, "collocation deg:", 20, "collocation_degree", 15) >>

IPOPTSection(c) ==
  << Heading("IPOPT settings: "), Rule,
     Field(c, "", 0, "ipopt_settings", 0) >>

\* the NLP section written before the NMPC section
repr_swapped(c) ==
  Title \o GeneralSection(c) \o ModelSection(c) \o ThrustSection(c)
        \o MechanicalSection(c) \o NLPSection(c) \o NMPCSection(c)
        \o IPOPTSection(c)

repr(c) ==
  Title \o GeneralSection(c) \o ModelSection(c) \o ThrustSection(c)
        \o MechanicalSection(c) \o NMPCSection(c) \o NLPSection(c)
        \o IPOPTSection(c)

\* print(mc) / str(mc) into a run log
Repr ==
  /\ pc = "constructed"
  /\ Len(printed) < MaxRepr
  /\ printed' = Append(printed, repr(mc))
  /\ UNCHANGED << lit, pc, mc, model, x, u, deriv >>

\* ------------------------------------------------------------------------
\* evaluation points
\* ------------------------------------------------------------------------
Identity == [n |-> << 0, 0, 0, 1 >>, d |-> 1]

Zero3 == << 0, 0, 0 >>

Components == (-QMax)..QMax

\* every quaternion on the grid, the zero quaternion included
Quaternions ==
  [n : Components \X Components \X Components \X Components, d : 1..QDenMax]

AngularVelocities ==
  {<< w1 * Scale, w2 * Scale, w3 * Scale >> :
     w1 \in (-WMax)..WMax, w2 \in (-WMax)..WMax, w3 \in (-WMax)..WMax}

Velocities == {Zero3, << Scale, 0, -Scale >>}

\* the controls the limits of the record allow, at their ends and at rest
Controls ==
  {<< u0, u1, u2, u3 >> :
     u0 \in {0, outer_gimbal_range[2]},
     u1 \in {inner_gimbal_range[1], 0},
     u2 \in {0, hover_thrust},
     u3 \in {diff_thrust_constraint[1], 0, diff_thrust_constraint[2]}}

States ==
  [p : {Zero3}, v : Velocities,
   q : {Identity, [n |-> << 1, 1, 1, 1 >>, d |-> 2],
        [n |-> << 0, 0, 0, 2 >>, d |-> 1]},
   w : {Zero3, << Scale, Scale, Scale >>}]

\* the kinematics are evaluated at rest over the first waypoint with the goal
\* control, and in motion over the second with the gimbal deflected
Surroundings ==
  { [p |-> waypoints[1], v |-> Zero3, u |-> ur],
    [p |-> waypoints[2], v |-> << Scale, 0, -Scale >>,
     u |-> << outer_gimbal_range[2], inner_gimbal_range[1], 0,
              diff_thrust_constraint[2] >>] }

KinPoints ==
  { [x |-> [p |-> s.p, v |-> s.v, q |-> qq, w |-> ww], u |-> s.u] :
      s \in Surroundings, qq \in Quaternions, ww \in AngularVelocities }

\* ------------------------------------------------------------------------
\* specifications
\* ------------------------------------------------------------------------
Start ==
  /\ pc = "start"
  /\ mc = NoConstants
  /\ model = NoModel
  /\ printed = << >>
  /\ deriv = NoDeriv

\* the life of the module: any literals, controls over the limits
Init ==
  /\ Start
  /\ lit \in Literals
  /\ x \in States
  /\ u \in Controls

Next == ConstantsInit \/ DroneModelInit \/ Repr \/ Evaluate

Spec == Init /\ [][Next]_vars

\* the kinematics: the literals of the source, every quaternion and angular
\* velocity of the grid
InitKin ==
  /\ Start
  /\ lit = DefaultLit
  /\ \E pt \in KinPoints : x = pt.x /\ u = pt.u

NextKin == ConstantsInit \/ DroneModelInit \/ Evaluate

SpecKin == InitKin /\ [][NextKin]_vars

\* ------------------------------------------------------------------------
\* properties
\* ------------------------------------------------------------------------
Evaluated == deriv # NoDeriv

Built == model # NoModel

DefaultConstants == pc = "constructed" /\ lit = DefaultLit

\* C1: with the default constants, at u = (0, 0, hover_thrust, 0),
\* q = (0, 0, 0, 1), v = 0 and w = 0 the velocity derivative has x and y
\* components 0 and a z component F(hover_thrust)/m - 9.81 that is zero
\* within the 0.05 N of the hover balance (m |dv_z| <= 0.05).
HoverAccelerationZero ==
  (/\ DefaultConstants
   /\ Evaluated
   /\ u = << 0, 0, hover_thrust, 0 >>
   /\ x.q = Identity
   /\ x.v = Zero3
   /\ x.w = Zero3)
  => /\ deriv.v[1] = 0
     /\ deriv.v[2] = 0
     /\ deriv.v[3] = Div(F(mc, u), mc.m) + mc.gz
     /\ Mul(mc.m, Abs(deriv.v[3])) <= 50000

HoverEvaluated ==
  /\ DefaultConstants
  /\ Evaluated
  /\ u = << 0, 0, hover_thrust, 0 >>
  /\ x.q = Identity
  /\ x.v = Zero3
  /\ x.w = Zero3
  /\ deriv.v[3] # 0

\* C2: for the default Constants the thrust polynomial at the hover throttle
\* balances the weight within 0.05 N: |a h^2 + b h + c - m 9.81| <= 0.05.
HoverThrustBalancesWeight ==
  DefaultConstants =>
    /\ mc.a = Mul(1327000, mc.tcc)
    /\ mc.b = Mul(284000, mc.tcc)
    /\ mc.c = Mul(-15000, mc.tcc)
    /\ Abs(F(mc, << 0, 0, mc.hover_thrust, 0 >>) - Mul(mc.m, 9810000))
         <= 50000

DefaultConstructed ==
  /\ DefaultConstants
  /\ mc.m = 1500000
  /\ mc.tcc = 1600000
  /\ mc.hover_thrust = 2529000

IsZero(s) == ~s.nan /\ s.c = 0

\* C3 as claimed: whenever w = (0, 0, 0) the quaternion derivative is exactly
\* the zero 4-vector, for every value of q and every p, v and control.
QuaternionDerivativeZeroForAnyQ ==
  (Evaluated /\ x.w = Zero3) => \A i \in 1..4 : IsZero(deriv.q[i])

\* C3 amended: whenever w = (0, 0, 0) and q is not the zero quaternion, the
\* quaternion derivative is exactly the zero 4-vector, for every p, v and
\* control; at q = 0 every component is NaN.
QuaternionDerivativeZero ==
  (Evaluated /\ x.w = Zero3) =>
    IF x.q.n = << 0, 0, 0, 0 >>
    THEN \A i \in 1..4 : deriv.q[i].nan
    ELSE \A i \in 1..4 : IsZero(deriv.q[i])

ZeroRateEvaluated ==
  /\ Evaluated
  /\ x.w = Zero3
  /\ x.q = [n |-> << 1, -1, 0, 1 >>, d |-> 2]
  /\ x.p # Zero3
  /\ x.v # Zero3
  /\ u # ur

Unit(q) == Dot4(q.n, q.n) = q.d * q.d

\* R(q)^T R(q) = identity, for R = num / den
Orthogonal(Rm) ==
  \A i \in 1..3 : \A j \in 1..3 :
    Rm.num[1][i] * Rm.num[1][j] + Rm.num[2][i] * Rm.num[2][j]
      + Rm.num[3][i] * Rm.num[3][j]
    = IF i = j THEN Rm.den * Rm.den ELSE 0

\* C4: for every unit quaternion q (vector part first), the body-to-world
\* matrix R(q) the model builds is orthogonal: R(q)^T R(q) = identity.
RotationOrthogonal ==
  (Built /\ Unit(x.q)) => Orthogonal(r_b2w(x))

UnitQuaternionEvaluated ==
  /\ Evaluated
  /\ Unit(x.q)
  /\ x.q = [n |-> << 1, -1, 1, 1 >>, d |-> 2]

NonPositive(lt) == lt.Ixx <= 0 \/ lt.Iyy <= 0 \/ lt.Izz <= 0

HasZero(lt) == lt.Ixx = 0 \/ lt.Iyy = 0 \/ lt.Izz = 0

\* C5 as claimed: construction fails, leaving no registry, whenever a moment
\* of inertia is zero or negative, and succeeds when all three are positive.
ConstructionFailsIffNonPositive ==
  pc # "start" =>
    /\ (pc = "failed") <=> NonPositive(lit)
    /\ pc = "failed" => mc = NoConstants

\* C5 amended: construction fails, leaving no registry, whenever a moment of
\* inertia is zero; it succeeds when all three are nonzero, negative values
\* included (the inverse of the tensor then exists).
ConstructionFailsIffSingular ==
  pc # "start" =>
    /\ (pc = "failed") <=> HasZero(lit)
    /\ pc = "failed" => (mc = NoConstants /\ model = NoModel)
    /\ pc = "constructed" => mc = ConstantsRecord(lit)

ConstructionFailed ==
  /\ pc = "failed"
  /\ lit.Izz = 0
  /\ lit.Ixx < 0

\* C6: once the Constants record is constructed no operation changes any of
\* its fields: DroneModel constructions, renderings and evaluations leave
\* mc as it was right after construction.
ConstantsNeverMutated ==
  [][pc = "constructed" => (pc' = "constructed" /\ mc' = mc)]_vars

ConstantsUsed ==
  /\ pc = "constructed"
  /\ Built
  /\ Evaluated
  /\ Len(printed) = MaxRepr
  /\ mc = ConstantsRecord(lit)

SectionLabels ==
  << "General constants: ", "Model related constants: ",
     "thrust model constants: ", "Mechanical and hardware constants: ",
     "NMPC constants: ", "NLP constants: ", "IPOPT settings: " >>

Headings(r) ==
  LET hs == SelectSeq(r, LAMBDA e : e.kind = "heading")
  IN  [i \in 1..Len(hs) |-> hs[i].label]

\* C7: a rendering is non-empty, carries the seven section labels (general,
\* model, thrust model, mechanical, NMPC, NLP, solver settings) in that
\* order, and any two renderings of the instance are equal.
RenderingStable ==
  \A i \in 1..Len(printed) :
    /\ printed[i] # << >>
    /\ Headings(printed[i]) = SectionLabels
    /\ \A j \in 1..Len(printed) : printed[i] = printed[j]

RenderedTwice ==
  /\ Len(printed) >= 2
  /\ Built
  /\ Evaluated

DefaultModel == ModelOf(ConstantsRecord(DefaultLit))

OnlyIzzAndLChanged == lit.Ixx = Ixx /\ lit.Iyy = Iyy

UnitYaw == << 0, 0, 0, Scale >>

\* C8: multiplying Izz by k multiplies the coefficient of u3 in the yaw
\* moment M = d Izz u3 by k, multiplying l by k multiplies the moment arm
\* l/2 by k, and dp/dt, dv/dt, dq/dt, the thrust torque (for Izz) and the
\* yaw acceleration (for l) stay what they are with the default literals.
YawAndArmProportional ==
  (Built /\ OnlyIzzAndLChanged) =>
    \A k \in 1..KMax :
      /\ lit.Izz = k * Izz =>
           /\ M(model, UnitYaw) = k * M(DefaultModel, UnitYaw)
           /\ M(model, u) = k * M(DefaultModel, u)
           /\ lit.l = l =>
                /\ M_vector(model, u)[1] = M_vector(DefaultModel, u)[1]
                /\ M_vector(model, u)[2] = M_vector(DefaultModel, u)[2]
      /\ lit.l = k * l =>
           /\ model.moment_arm[1] = 0
           /\ model.moment_arm[2] = 0
           /\ -model.moment_arm[3] = k * (-DefaultModel.moment_arm[3])
           /\ (Evaluated /\ lit.Izz = Izz) =>
                deriv.w[3] = rhs_w(DefaultModel, x, u)[3]
      /\ Evaluated =>
           /\ deriv.p = rhs_p(DefaultModel, x, u)
           /\ deriv.v = rhs_v(DefaultModel, x, u)
           /\ deriv.q = rhs_q(DefaultModel, x, u)

IzzAndLScaled ==
  /\ Evaluated
  /\ lit.Izz = KMax * Izz
  /\ lit.l = KMax * l
  /\ lit.Ixx = Ixx
  /\ lit.Iyy = Iyy
  /\ u[4] # 0
  /\ u[3] # 0
  /\ u[1] # 0

\* the attribute a is in the rendering r with its value, under a label of
\* its own or right under the heading (and rule) of its section
Listed(r, a) ==
  \E i \in 1..Len(r) :
    /\ r[i].kind = "field"
    /\ r[i].attr = a
    /\ r[i].value = mc[a]
    /\ \/ r[i].label # ""
       \/ (i > 2 /\ r[i - 2].kind = "heading")

\* C9 as claimed: the rendering lists every attribute set by construction,
\* the inertia tensor I included, with a label and its value.
RenderingListsEveryField ==
  \A i \in 1..Len(printed) : \A a \in DOMAIN mc : Listed(printed[i], a)

\* C9 amended: the rendering lists every attribute set by construction with
\* a label and its value, except the inertia tensor I and I_diag, whose
\* entries appear only as Ixx, Iyy, Izz (and through I_inv).
RenderingListsFieldsButTensor ==
  \A i \in 1..Len(printed) :
    /\ \A a \in DOMAIN mc \ {"I", "I_diag"} : Listed(printed[i], a)
    /\ \A a \in {"I", "I_diag"} :
         \A j \in 1..Len(printed[i]) :
           printed[i][j].kind = "field" => printed[i][j].attr # a

Rendered ==
  /\ Len(printed) >= 1
  /\ "I" \in DOMAIN mc
  /\ "ipopt_settings" \in DOMAIN mc

SkewSymmetric(A) == \A i \in 1..4 : \A j \in 1..4 : A[i][j] = -A[j][i]

\* C10: Qw is skew-symmetric, so for every w and every nonzero q the
\* derivative dq/dt = 0.5 Qw (q/||q||) is orthogonal to q: q . dq/dt = 0.
QuaternionNormPreserved ==
  (Evaluated /\ x.q.n # << 0, 0, 0, 0 >>) =>
    /\ SkewSymmetric(Q_omega(x))
    /\ \A i \in 1..4 : ~deriv.q[i].nan /\ deriv.q[i].r = Dot4(x.q.n, x.q.n)
    /\ x.q.n[1] * deriv.q[1].c + x.q.n[2] * deriv.q[2].c
         + x.q.n[3] * deriv.q[3].c + x.q.n[4] * deriv.q[4].c = 0

RotatingEvaluated ==
  /\ Evaluated
  /\ x.w = << Scale, -Scale, Scale >>
  /\ x.q = [n |-> << 1, 0, -1, 1 >>, d |-> 1]
  /\ \E i \in 1..4 : ~deriv.q[i].nan /\ deriv.q[i].c # 0

====
